---- MODULE Spec2Model ----
(***************************************************************************)
(* Legends & Luminaries (src/app.py): the heuristic timeline extraction    *)
(* extract_timeline_from_text, the "Notable Works" section collector of    *)
(* page_person_detail and the session favorites.  Texts and titles are     *)
(* sequences of code points; the regular expressions of the source are     *)
(* modelled character by character.                                        *)
(***************************************************************************)
EXTENDS Integers, Sequences, FiniteSets, TLC

VARIABLES text, max_events, pc, sentences, si, events, sorted_events, i,
          seen, unique_events, result, raised,
          page, wpc, k, hit, works,
          favorites, fav_call

timelineVars == <<text, max_events, pc, sentences, si, events, sorted_events,
                  i, seen, unique_events, result, raised>>
worksVars == <<page, wpc, k, hit, works>>
favVars == <<favorites, fav_call>>
vars == <<text, max_events, pc, sentences, si, events, sorted_events, i,
          seen, unique_events, result, raised, page, wpc, k, hit, works,
          favorites, fav_call>>

(***************************************************************************)
(* Bounds of the model.                                                    *)
(***************************************************************************)
MaxChunks == 3
MaxCap == 3
MaxNeg == 1
MaxSections == 2
MaxSubs == 2

(***************************************************************************)
(* A str is the sequence of its code points.  Str gives the code points of *)
(* a literal of printable ASCII characters, "\n" and "\t".                 *)
(***************************************************************************)
PrintableTo95 ==
    " !\"#$%&'()*+,-./0123456789:;<=>?@ABCDEFGHIJKLMNOPQRSTUVWXYZ[\\]^_"

PrintableFrom97 == "abcdefghijklmnopqrstuvwxyz{|}~"

\* ord(ch)
Cp(ch) ==
    IF ch = "\n" THEN 10
    ELSE IF ch = "\t" THEN 9
    ELSE IF \E n \in 1..Len(PrintableTo95) : SubSeq(PrintableTo95, n, n) = ch
    THEN 31 + (CHOOSE n \in 1..Len(PrintableTo95) :
                   SubSeq(PrintableTo95, n, n) = ch)
    ELSE 96 + (CHOOSE n \in 1..Len(PrintableFrom97) :
                   SubSeq(PrintableFrom97, n, n) = ch)

Str(lit) == [n \in 1..Len(lit) |-> Cp(SubSeq(lit, n, n))]

Char(s, p) == s[p]

(***************************************************************************)
(* Character classes of Python's re module for str patterns and of         *)
(* str.strip, over all of Unicode (code points).                           *)
(***************************************************************************)
\* the characters of \s, which are also the ones str.strip() removes
SpaceChars == {9, 10, 11, 12, 13, 28, 29, 30, 31, 32, 133, 160, 5760, 8192,
               8193, 8194, 8195, 8196, 8197, 8198, 8199, 8200, 8201, 8202,
               8232, 8233, 8239, 8287, 12288}

\* the zero of every block of ten Unicode decimal digits
DigitZeros == {48, 1632, 1776, 1984, 2406, 2534, 2662, 2790, 2918, 3046,
               3174, 3302, 3430, 3558, 3664, 3792, 3872, 4160, 4240, 6112,
               6160, 6470, 6608, 6784, 6800, 6992, 7088, 7232, 7248, 42528,
               43216, 43264, 43472, 43504, 43600, 44016, 65296, 66720,
               68912, 69734, 69872, 69942, 70096, 70384, 70736, 70864,
               71248, 71360, 71472, 71904, 72016, 72784, 73040, 73120,
               92768, 92864, 93008, 120782, 120792, 120802, 120812, 120822,
               123200, 123632, 125264, 130032}

\* the ranges of the characters of \w: the alphanumerics and "_"
WordRanges == {
    <<48, 57>>, <<65, 90>>, <<95, 95>>, <<97, 122>>, <<170, 170>>, <<178,
    179>>, <<181, 181>>, <<185, 186>>, <<188, 190>>, <<192, 214>>, <<216,
    246>>, <<248, 705>>, <<710, 721>>, <<736, 740>>, <<748, 748>>, <<750,
    750>>, <<880, 884>>, <<886, 887>>, <<890, 893>>, <<895, 895>>, <<902,
    902>>, <<904, 906>>, <<908, 908>>, <<910, 929>>, <<931, 1013>>, <<1015,
    1153>>, <<1162, 1327>>, <<1329, 1366>>, <<1369, 1369>>, <<1376, 1416>>,
    <<1488, 1514>>, <<1519, 1522>>, <<1568, 1610>>, <<1632, 1641>>, <<1646,
    1647>>, <<1649, 1747>>, <<1749, 1749>>, <<1765, 1766>>, <<1774, 1788>>,
    <<1791, 1791>>, <<1808, 1808>>, <<1810, 1839>>, <<1869, 1957>>, <<1969,
    1969>>, <<1984, 2026>>, <<2036, 2037>>, <<2042, 2042>>, <<2048, 2069>>,
    <<2074, 2074>>, <<2084, 2084>>, <<2088, 2088>>, <<2112, 2136>>, <<2144,
    2154>>, <<2160, 2183>>, <<2185, 2190>>, <<2208, 2249>>, <<2308, 2361>>,
    <<2365, 2365>>, <<2384, 2384>>, <<2392, 2401>>, <<2406, 2415>>, <<2417,
    2432>>, <<2437, 2444>>, <<2447, 2448>>, <<2451, 2472>>, <<2474, 2480>>,
    <<2482, 2482>>, <<2486, 2489>>, <<2493, 2493>>, <<2510, 2510>>, <<2524,
    2525>>, <<2527, 2529>>, <<2534, 2545>>, <<2548, 2553>>, <<2556, 2556>>,
    <<2565, 2570>>, <<2575, 2576>>, <<2579, 2600>>, <<2602, 2608>>, <<2610,
    2611>>, <<2613, 2614>>, <<2616, 2617>>, <<2649, 2652>>, <<2654, 2654>>,
    <<2662, 2671>>, <<2674, 2676>>, <<2693, 2701>>, <<2703, 2705>>, <<2707,
    2728>>, <<2730, 2736>>, <<2738, 2739>>, <<2741, 2745>>, <<2749, 2749>>,
    <<2768, 2768>>, <<2784, 2785>>, <<2790, 2799>>, <<2809, 2809>>, <<2821,
    2828>>, <<2831, 2832>>, <<2835, 2856>>, <<2858, 2864>>, <<2866, 2867>>,
    <<2869, 2873>>, <<2877, 2877>>, <<2908, 2909>>, <<2911, 2913>>, <<2918,
    2927>>, <<2929, 2935>>, <<2947, 2947>>, <<2949, 2954>>, <<2958, 2960>>,
    <<2962, 2965>>, <<2969, 2970>>, <<2972, 2972>>, <<2974, 2975>>, <<2979,
    2980>>, <<2984, 2986>>, <<2990, 3001>>, <<3024, 3024>>, <<3046, 3058>>,
    <<3077, 3084>>, <<3086, 3088>>, <<3090, 3112>>, <<3114, 3129>>, <<3133,
    3133>>, <<3160, 3162>>, <<3165, 3165>>, <<3168, 3169>>, <<3174, 3183>>,
    <<3192, 3198>>, <<3200, 3200>>, <<3205, 3212>>, <<3214, 3216>>, <<3218,
    3240>>, <<3242, 3251>>, <<3253, 3257>>, <<3261, 3261>>, <<3293, 3294>>,
    <<3296, 3297>>, <<3302, 3311>>, <<3313, 3314>>, <<3332, 3340>>, <<3342,
    3344>>, <<3346, 3386>>, <<3389, 3389>>, <<3406, 3406>>, <<3412, 3414>>,
    <<3416, 3425>>, <<3430, 3448>>, <<3450, 3455>>, <<3461, 3478>>, <<3482,
    3505>>, <<3507, 3515>>, <<3517, 3517>>, <<3520, 3526>>, <<3558, 3567>>,
    <<3585, 3632>>, <<3634, 3635>>, <<3648, 3654>>, <<3664, 3673>>, <<3713,
    3714>>, <<3716, 3716>>, <<3718, 3722>>, <<3724, 3747>>, <<3749, 3749>>,
    <<3751, 3760>>, <<3762, 3763>>, <<3773, 3773>>, <<3776, 3780>>, <<3782,
    3782>>, <<3792, 3801>>, <<3804, 3807>>, <<3840, 3840>>, <<3872, 3891>>,
    <<3904, 3911>>, <<3913, 3948>>, <<3976, 3980>>, <<4096, 4138>>, <<4159,
    4169>>, <<4176, 4181>>, <<4186, 4189>>, <<4193, 4193>>, <<4197, 4198>>,
    <<4206, 4208>>, <<4213, 4225>>, <<4238, 4238>>, <<4240, 4249>>, <<4256,
    4293>>, <<4295, 4295>>, <<4301, 4301>>, <<4304, 4346>>, <<4348, 4680>>,
    <<4682, 4685>>, <<4688, 4694>>, <<4696, 4696>>, <<4698, 4701>>, <<4704,
    4744>>, <<4746, 4749>>, <<4752, 4784>>, <<4786, 4789>>, <<4792, 4798>>,
    <<4800, 4800>>, <<4802, 4805>>, <<4808, 4822>>, <<4824, 4880>>, <<4882,
    4885>>, <<4888, 4954>>, <<4969, 4988>>, <<4992, 5007>>, <<5024, 5109>>,
    <<5112, 5117>>, <<5121, 5740>>, <<5743, 5759>>, <<5761, 5786>>, <<5792,
    5866>>, <<5870, 5880>>, <<5888, 5905>>, <<5919, 5937>>, <<5952, 5969>>,
    <<5984, 5996>>, <<5998, 6000>>, <<6016, 6067>>, <<6103, 6103>>, <<6108,
    6108>>, <<6112, 6121>>, <<6128, 6137>>, <<6160, 6169>>, <<6176, 6264>>,
    <<6272, 6276>>, <<6279, 6312>>, <<6314, 6314>>, <<6320, 6389>>, <<6400,
    6430>>, <<6470, 6509>>, <<6512, 6516>>, <<6528, 6571>>, <<6576, 6601>>,
    <<6608, 6618>>, <<6656, 6678>>, <<6688, 6740>>, <<6784, 6793>>, <<6800,
    6809>>, <<6823, 6823>>, <<6917, 6963>>, <<6981, 6988>>, <<6992, 7001>>,
    <<7043, 7072>>, <<7086, 7141>>, <<7168, 7203>>, <<7232, 7241>>, <<7245,
    7293>>, <<7296, 7304>>, <<7312, 7354>>, <<7357, 7359>>, <<7401, 7404>>,
    <<7406, 7411>>, <<7413, 7414>>, <<7418, 7418>>, <<7424, 7615>>, <<7680,
    7957>>, <<7960, 7965>>, <<7968, 8005>>, <<8008, 8013>>, <<8016, 8023>>,
    <<8025, 8025>>, <<8027, 8027>>, <<8029, 8029>>, <<8031, 8061>>, <<8064,
    8116>>, <<8118, 8124>>, <<8126, 8126>>, <<8130, 8132>>, <<8134, 8140>>,
    <<8144, 8147>>, <<8150, 8155>>, <<8160, 8172>>, <<8178, 8180>>, <<8182,
    8188>>, <<8304, 8305>>, <<8308, 8313>>, <<8319, 8329>>, <<8336, 8348>>,
    <<8450, 8450>>, <<8455, 8455>>, <<8458, 8467>>, <<8469, 8469>>, <<8473,
    8477>>, <<8484, 8484>>, <<8486, 8486>>, <<8488, 8488>>, <<8490, 8493>>,
    <<8495, 8505>>, <<8508, 8511>>, <<8517, 8521>>, <<8526, 8526>>, <<8528,
    8585>>, <<9312, 9371>>, <<9450, 9471>>, <<10102, 10131>>, <<11264,
    11492>>, <<11499, 11502>>, <<11506, 11507>>, <<11517, 11517>>, <<11520,
    11557>>, <<11559, 11559>>, <<11565, 11565>>, <<11568, 11623>>, <<11631,
    11631>>, <<11648, 11670>>, <<11680, 11686>>, <<11688, 11694>>, <<11696,
    11702>>, <<11704, 11710>>, <<11712, 11718>>, <<11720, 11726>>, <<11728,
    11734>>, <<11736, 11742>>, <<11823, 11823>>, <<12293, 12295>>, <<12321,
    12329>>, <<12337, 12341>>, <<12344, 12348>>, <<12353, 12438>>, <<12445,
    12447>>, <<12449, 12538>>, <<12540, 12543>>, <<12549, 12591>>, <<12593,
    12686>>, <<12690, 12693>>, <<12704, 12735>>, <<12784, 12799>>, <<12832,
    12841>>, <<12872, 12879>>, <<12881, 12895>>, <<12928, 12937>>, <<12977,
    12991>>, <<13312, 19903>>, <<19968, 42124>>, <<42192, 42237>>, <<42240,
    42508>>, <<42512, 42539>>, <<42560, 42606>>, <<42623, 42653>>, <<42656,
    42735>>, <<42775, 42783>>, <<42786, 42888>>, <<42891, 42954>>, <<42960,
    42961>>, <<42963, 42963>>, <<42965, 42969>>, <<42994, 43009>>, <<43011,
    43013>>, <<43015, 43018>>, <<43020, 43042>>, <<43056, 43061>>, <<43072,
    43123>>, <<43138, 43187>>, <<43216, 43225>>, <<43250, 43255>>, <<43259,
    43259>>, <<43261, 43262>>, <<43264, 43301>>, <<43312, 43334>>, <<43360,
    43388>>, <<43396, 43442>>, <<43471, 43481>>, <<43488, 43492>>, <<43494,
    43518>>, <<43520, 43560>>, <<43584, 43586>>, <<43588, 43595>>, <<43600,
    43609>>, <<43616, 43638>>, <<43642, 43642>>, <<43646, 43695>>, <<43697,
    43697>>, <<43701, 43702>>, <<43705, 43709>>, <<43712, 43712>>, <<43714,
    43714>>, <<43739, 43741>>, <<43744, 43754>>, <<43762, 43764>>, <<43777,
    43782>>, <<43785, 43790>>, <<43793, 43798>>, <<43808, 43814>>, <<43816,
    43822>>, <<43824, 43866>>, <<43868, 43881>>, <<43888, 44002>>, <<44016,
    44025>>, <<44032, 55203>>, <<55216, 55238>>, <<55243, 55291>>, <<63744,
    64109>>, <<64112, 64217>>, <<64256, 64262>>, <<64275, 64279>>, <<64285,
    64285>>, <<64287, 64296>>, <<64298, 64310>>, <<64312, 64316>>, <<64318,
    64318>>, <<64320, 64321>>, <<64323, 64324>>, <<64326, 64433>>, <<64467,
    64829>>, <<64848, 64911>>, <<64914, 64967>>, <<65008, 65019>>, <<65136,
    65140>>, <<65142, 65276>>, <<65296, 65305>>, <<65313, 65338>>, <<65345,
    65370>>, <<65382, 65470>>, <<65474, 65479>>, <<65482, 65487>>, <<65490,
    65495>>, <<65498, 65500>>, <<65536, 65547>>, <<65549, 65574>>, <<65576,
    65594>>, <<65596, 65597>>, <<65599, 65613>>, <<65616, 65629>>, <<65664,
    65786>>, <<65799, 65843>>, <<65856, 65912>>, <<65930, 65931>>, <<66176,
    66204>>, <<66208, 66256>>, <<66273, 66299>>, <<66304, 66339>>, <<66349,
    66378>>, <<66384, 66421>>, <<66432, 66461>>, <<66464, 66499>>, <<66504,
    66511>>, <<66513, 66517>>, <<66560, 66717>>, <<66720, 66729>>, <<66736,
    66771>>, <<66776, 66811>>, <<66816, 66855>>, <<66864, 66915>>, <<66928,
    66938>>, <<66940, 66954>>, <<66956, 66962>>, <<66964, 66965>>, <<66967,
    66977>>, <<66979, 66993>>, <<66995, 67001>>, <<67003, 67004>>, <<67072,
    67382>>, <<67392, 67413>>, <<67424, 67431>>, <<67456, 67461>>, <<67463,
    67504>>, <<67506, 67514>>, <<67584, 67589>>, <<67592, 67592>>, <<67594,
    67637>>, <<67639, 67640>>, <<67644, 67644>>, <<67647, 67669>>, <<67672,
    67702>>, <<67705, 67742>>, <<67751, 67759>>, <<67808, 67826>>, <<67828,
    67829>>, <<67835, 67867>>, <<67872, 67897>>, <<67968, 68023>>, <<68028,
    68047>>, <<68050, 68096>>, <<68112, 68115>>, <<68117, 68119>>, <<68121,
    68149>>, <<68160, 68168>>, <<68192, 68222>>, <<68224, 68255>>, <<68288,
    68295>>, <<68297, 68324>>, <<68331, 68335>>, <<68352, 68405>>, <<68416,
    68437>>, <<68440, 68466>>, <<68472, 68497>>, <<68521, 68527>>, <<68608,
    68680>>, <<68736, 68786>>, <<68800, 68850>>, <<68858, 68899>>, <<68912,
    68921>>, <<69216, 69246>>, <<69248, 69289>>, <<69296, 69297>>, <<69376,
    69415>>, <<69424, 69445>>, <<69457, 69460>>, <<69488, 69505>>, <<69552,
    69579>>, <<69600, 69622>>, <<69635, 69687>>, <<69714, 69743>>, <<69745,
    69746>>, <<69749, 69749>>, <<69763, 69807>>, <<69840, 69864>>, <<69872,
    69881>>, <<69891, 69926>>, <<69942, 69951>>, <<69956, 69956>>, <<69959,
    69959>>, <<69968, 70002>>, <<70006, 70006>>, <<70019, 70066>>, <<70081,
    70084>>, <<70096, 70106>>, <<70108, 70108>>, <<70113, 70132>>, <<70144,
    70161>>, <<70163, 70187>>, <<70272, 70278>>, <<70280, 70280>>, <<70282,
    70285>>, <<70287, 70301>>, <<70303, 70312>>, <<70320, 70366>>, <<70384,
    70393>>, <<70405, 70412>>, <<70415, 70416>>, <<70419, 70440>>, <<70442,
    70448>>, <<70450, 70451>>, <<70453, 70457>>, <<70461, 70461>>, <<70480,
    70480>>, <<70493, 70497>>, <<70656, 70708>>, <<70727, 70730>>, <<70736,
    70745>>, <<70751, 70753>>, <<70784, 70831>>, <<70852, 70853>>, <<70855,
    70855>>, <<70864, 70873>>, <<71040, 71086>>, <<71128, 71131>>, <<71168,
    71215>>, <<71236, 71236>>, <<71248, 71257>>, <<71296, 71338>>, <<71352,
    71352>>, <<71360, 71369>>, <<71424, 71450>>, <<71472, 71483>>, <<71488,
    71494>>, <<71680, 71723>>, <<71840, 71922>>, <<71935, 71942>>, <<71945,
    71945>>, <<71948, 71955>>, <<71957, 71958>>, <<71960, 71983>>, <<71999,
    71999>>, <<72001, 72001>>, <<72016, 72025>>, <<72096, 72103>>, <<72106,
    72144>>, <<72161, 72161>>, <<72163, 72163>>, <<72192, 72192>>, <<72203,
    72242>>, <<72250, 72250>>, <<72272, 72272>>, <<72284, 72329>>, <<72349,
    72349>>, <<72368, 72440>>, <<72704, 72712>>, <<72714, 72750>>, <<72768,
    72768>>, <<72784, 72812>>, <<72818, 72847>>, <<72960, 72966>>, <<72968,
    72969>>, <<72971, 73008>>, <<73030, 73030>>, <<73040, 73049>>, <<73056,
    73061>>, <<73063, 73064>>, <<73066, 73097>>, <<73112, 73112>>, <<73120,
    73129>>, <<73440, 73458>>, <<73648, 73648>>, <<73664, 73684>>, <<73728,
    74649>>, <<74752, 74862>>, <<74880, 75075>>, <<77712, 77808>>, <<77824,
    78894>>, <<82944, 83526>>, <<92160, 92728>>, <<92736, 92766>>, <<92768,
    92777>>, <<92784, 92862>>, <<92864, 92873>>, <<92880, 92909>>, <<92928,
    92975>>, <<92992, 92995>>, <<93008, 93017>>, <<93019, 93025>>, <<93027,
    93047>>, <<93053, 93071>>, <<93760, 93846>>, <<93952, 94026>>, <<94032,
    94032>>, <<94099, 94111>>, <<94176, 94177>>, <<94179, 94179>>, <<94208,
    100343>>, <<100352, 101589>>, <<101632, 101640>>, <<110576, 110579>>,
    <<110581, 110587>>, <<110589, 110590>>, <<110592, 110882>>, <<110928,
    110930>>, <<110948, 110951>>, <<110960, 111355>>, <<113664, 113770>>,
    <<113776, 113788>>, <<113792, 113800>>, <<113808, 113817>>, <<119520,
    119539>>, <<119648, 119672>>, <<119808, 119892>>, <<119894, 119964>>,
    <<119966, 119967>>, <<119970, 119970>>, <<119973, 119974>>, <<119977,
    119980>>, <<119982, 119993>>, <<119995, 119995>>, <<119997, 120003>>,
    <<120005, 120069>>, <<120071, 120074>>, <<120077, 120084>>, <<120086,
    120092>>, <<120094, 120121>>, <<120123, 120126>>, <<120128, 120132>>,
    <<120134, 120134>>, <<120138, 120144>>, <<120146, 120485>>, <<120488,
    120512>>, <<120514, 120538>>, <<120540, 120570>>, <<120572, 120596>>,
    <<120598, 120628>>, <<120630, 120654>>, <<120656, 120686>>, <<120688,
    120712>>, <<120714, 120744>>, <<120746, 120770>>, <<120772, 120779>>,
    <<120782, 120831>>, <<122624, 122654>>, <<123136, 123180>>, <<123191,
    123197>>, <<123200, 123209>>, <<123214, 123214>>, <<123536, 123565>>,
    <<123584, 123627>>, <<123632, 123641>>, <<124896, 124902>>, <<124904,
    124907>>, <<124909, 124910>>, <<124912, 124926>>, <<124928, 125124>>,
    <<125127, 125135>>, <<125184, 125251>>, <<125259, 125259>>, <<125264,
    125273>>, <<126065, 126123>>, <<126125, 126127>>, <<126129, 126132>>,
    <<126209, 126253>>, <<126255, 126269>>, <<126464, 126467>>, <<126469,
    126495>>, <<126497, 126498>>, <<126500, 126500>>, <<126503, 126503>>,
    <<126505, 126514>>, <<126516, 126519>>, <<126521, 126521>>, <<126523,
    126523>>, <<126530, 126530>>, <<126535, 126535>>, <<126537, 126537>>,
    <<126539, 126539>>, <<126541, 126543>>, <<126545, 126546>>, <<126548,
    126548>>, <<126551, 126551>>, <<126553, 126553>>, <<126555, 126555>>,
    <<126557, 126557>>, <<126559, 126559>>, <<126561, 126562>>, <<126564,
    126564>>, <<126567, 126570>>, <<126572, 126578>>, <<126580, 126583>>,
    <<126585, 126588>>, <<126590, 126590>>, <<126592, 126601>>, <<126603,
    126619>>, <<126625, 126627>>, <<126629, 126633>>, <<126635, 126651>>,
    <<127232, 127244>>, <<130032, 130041>>, <<131072, 173791>>, <<173824,
    177976>>, <<177984, 178205>>, <<178208, 183969>>, <<183984, 191456>>,
    <<194560, 195101>>, <<196608, 201546>>}

\* \s
IsSpace(c) == c \in SpaceChars

\* [\.\?\!]
IsTerminal(c) == c \in {46, 63, 33}

\* \d
IsDigit(c) == \E z \in DigitZeros : z <= c /\ c <= z + 9

\* \w
IsWord(c) == \E r \in WordRanges : r[1] <= c /\ c <= r[2]

\* int() of one decimal digit
DigitVal(c) == c - (CHOOSE z \in DigitZeros : z <= c /\ c <= z + 9)

\* int(y) for a string of decimal digits
RECURSIVE ToInt(_)
ToInt(y) ==
    IF Len(y) = 0 THEN 0
    ELSE 10 * ToInt(SubSeq(y, 1, Len(y) - 1)) + DigitVal(Char(y, Len(y)))

\* s.strip(): leading and trailing whitespace removed
RECURSIVE LStrip(_)
LStrip(s) ==
    IF Len(s) > 0 /\ IsSpace(Char(s, 1)) THEN LStrip(SubSeq(s, 2, Len(s))) ELSE s

RECURSIVE RStrip(_)
RStrip(s) ==
    IF Len(s) > 0 /\ IsSpace(Char(s, Len(s)))
    THEN RStrip(SubSeq(s, 1, Len(s) - 1)) ELSE s

Strip(s) == RStrip(LStrip(s))

(***************************************************************************)
(* re.split(r'(?<=[\.\?\!])\s+', text): a separator is a maximal run of    *)
(* whitespace that starts right after a terminal punctuation character.    *)
(***************************************************************************)
RECURSIVE SpaceRunEnd(_, _)
SpaceRunEnd(s, p) ==
    IF p <= Len(s) /\ IsSpace(Char(s, p)) THEN SpaceRunEnd(s, p + 1) ELSE p

SeparatorAt(s, p) ==
    /\ p > 1
    /\ p <= Len(s)
    /\ IsTerminal(Char(s, p - 1))
    /\ IsSpace(Char(s, p))

RECURSIVE SplitFrom(_, _, _)
SplitFrom(s, start, p) ==
    IF p > Len(s) THEN <<SubSeq(s, start, Len(s))>>
    ELSE IF SeparatorAt(s, p)
         THEN <<SubSeq(s, start, p - 1)>>
                  \o SplitFrom(s, SpaceRunEnd(s, p), SpaceRunEnd(s, p))
         ELSE SplitFrom(s, start, p + 1)

SplitSentences(s) == SplitFrom(s, 1, 1)

(***************************************************************************)
(* re.findall(r'\b(1[89]\d{2}|20\d{2})\b', s): the non-overlapping matches *)
(* from left to right.                                                     *)
(***************************************************************************)
WordBoundary(s, p) ==
    \* \b between s[p-1] and s[p] (1-based; p = 1 and p = Len(s) + 1 are the edges)
    LET before == p > 1 /\ IsWord(Char(s, p - 1))
        after == p <= Len(s) /\ IsWord(Char(s, p))
    IN  before # after

YearAt(s, p) ==
    /\ p + 3 <= Len(s)
    /\ \/ Char(s, p) = 49 /\ Char(s, p + 1) \in {56, 57}    \* 1[89]
       \/ Char(s, p) = 50 /\ Char(s, p + 1) = 48           \* 20
    /\ IsDigit(Char(s, p + 2))
    /\ IsDigit(Char(s, p + 3))
    /\ WordBoundary(s, p)
    /\ WordBoundary(s, p + 4)

RECURSIVE FindYearsFrom(_, _)
FindYearsFrom(s, p) ==
    IF p + 3 > Len(s) THEN <<>>
    ELSE IF YearAt(s, p)
         THEN <<SubSeq(s, p, p + 3)>> \o FindYearsFrom(s, p + 4)
         ELSE FindYearsFrom(s, p + 1)

FindYears(s) == FindYearsFrom(s, 1)

\* the inner loop over years: one event per matched year of sentence s
SentenceEvents(s) ==
    LET years == FindYears(s)
    IN  [n \in 1..Len(years) |-> [year |-> ToInt(years[n]), text |-> Strip(s)]]

(***************************************************************************)
(* sorted(events, key=lambda x: x["year"]): a stable sort, ascending.      *)
(***************************************************************************)
\* an insertion that puts e before the events of the same year
InsertBeforeEqual(e, evs) ==
    LET n == Cardinality({m \in DOMAIN evs : evs[m].year < e.year})
    IN  SubSeq(evs, 1, n) \o <<e>> \o SubSeq(evs, n + 1, Len(evs))

\* e goes after every event of evs (sorted) whose year is <= e.year
InsertByYear(e, evs) ==
    LET n == Cardinality({m \in DOMAIN evs : evs[m].year <= e.year})
    IN  SubSeq(evs, 1, n) \o <<e>> \o SubSeq(evs, n + 1, Len(evs))

RECURSIVE SortPrefix(_, _)
SortPrefix(evs, n) ==
    IF n = 0 THEN <<>> ELSE InsertByYear(evs[n], SortPrefix(evs, n - 1))

\* the events left in the order of the text
Unsorted(evs) == evs

\* the events sorted by year, largest first (ties in input order)
RECURSIVE SortPrefixDesc(_, _)
SortPrefixDesc(evs, n) ==
    IF n = 0 THEN <<>>
    ELSE LET rest == SortPrefixDesc(evs, n - 1)
             m == Cardinality({q \in DOMAIN rest : rest[q].year >= evs[n].year})
         IN  SubSeq(rest, 1, m) \o <<evs[n]>> \o SubSeq(rest, m + 1, Len(rest))

SortedDescending(evs) == SortPrefixDesc(evs, Len(evs))

SortedByYear(evs) == SortPrefix(evs, Len(evs))

(***************************************************************************)
(* The argument text of a call: a str, None, or an int (a non-text value). *)
(***************************************************************************)
StrArg(s) == [kind |-> "str", str |-> s, num |-> 0]
NoneArg == [kind |-> "NoneType", str |-> <<>>, num |-> 0]
IntArg(n) == [kind |-> "int", str |-> <<>>, num |-> n]

\* bool(text)
Truthy(t) ==
    CASE t.kind = "NoneType" -> FALSE
      [] t.kind = "str" -> Len(t.str) > 0
      [] t.kind = "int" -> t.num # 0

\* the pieces the input texts are concatenated from; 160 is the no-break
\* space, 233 e-acute, 1635 the Arabic-Indic digit three, 12 the form feed
Chunks == {Str("A 1900. "), Str("B 1900 1850.\n"), Str("C 1850! "),
           <<160>> \o Str("A 1900."), Str("D 2001"),
           Str("x1900 18000 1799? "),
           <<233>> \o Str("1900 19") \o <<1635>> \o Str("0.") \o <<12>>}

RECURSIVE Concat(_)
Concat(ss) == IF Len(ss) = 0 THEN <<>> ELSE Head(ss) \o Concat(Tail(ss))

Texts == {Concat(ss) : ss \in UNION {[1..n -> Chunks] : n \in 0..MaxChunks}}

TextArgs == {StrArg(s) : s \in Texts} \cup {NoneArg, IntArg(0), IntArg(1900)}

(***************************************************************************)
(* The session favorites: st.session_state["favorites"], a list of names,  *)
(* and the last call made on it.                                           *)
(***************************************************************************)
\* the names add_favorite and remove_favorite are called with
Names == {"Ada Lovelace", "Alan Turing", "Marie Curie", "Plato"}

\* name in list
InList(name, list) == \E n \in DOMAIN list : list[n] = name

\* list.remove(name): the first item equal to name is taken out
RECURSIVE ListRemove(_, _)
ListRemove(list, name) ==
    IF Len(list) = 0 THEN list
    ELSE IF Head(list) = name THEN Tail(list)
         ELSE <<Head(list)>> \o ListRemove(Tail(list), name)

\* the name appended without the membership test
AppendedAlways(list, name) == Append(list, name)

\* the favorites after add_favorite(name)
AfterAdd(list, name) == IF ~InList(name, list) THEN Append(list, name) ELSE list

\* the favorites after remove_favorite(name)
AfterRemove(list, name) == IF InList(name, list) THEN ListRemove(list, name) ELSE list

NoCall == [op |-> "none", name |-> "", before |-> <<>>]

InitFavoritesIdle ==
    /\ favorites = <<>>
    /\ fav_call = NoCall

(***************************************************************************)
(* The "Notable Works" collector of page_person_detail.                    *)
(* re.search(r'works|books|bibliography|publications|selected works',      *)
(*           s.title, flags=re.I)                                          *)
(***************************************************************************)
Alternatives ==
    <<Str("works"), Str("books"), Str("bibliography"), Str("publications"),
      Str("selected works")>>

\* the case folding of re.I on the characters that match a letter of the
\* pattern: A-Z, the Kelvin sign (k), the dotted capital and the dotless
\* small i, and the long s
FoldCase(c) ==
    IF 65 <= c /\ c <= 90 THEN c + 32
    ELSE IF c = 8490 THEN 107
    ELSE IF c \in {304, 305} THEN 105
    ELSE IF c = 383 THEN 115
    ELSE c

\* the alternative alt matched at position p of s without re.I
MatchesAtExact(alt, s, p) ==
    /\ p + Len(alt) - 1 <= Len(s)
    /\ \A q \in 1..Len(alt) : Char(s, p + q - 1) = Char(alt, q)

\* the alternative alt matches at position p of s, letters compared by re.I
MatchesAt(alt, s, p) ==
    /\ p + Len(alt) - 1 <= Len(s)
    /\ \A q \in 1..Len(alt) :
           FoldCase(Char(s, p + q - 1)) = FoldCase(Char(alt, q))

\* re.match: the pattern tried at the start of the title only
ReMatchWorks(title) ==
    \E a \in DOMAIN Alternatives : MatchesAt(Alternatives[a], title, 1)

\* re.search: the pattern tried at every position of the title
ReSearchWorks(title) ==
    \E p \in 1..Len(title) :
        \E a \in DOMAIN Alternatives : MatchesAt(Alternatives[a], title, p)

\* a section of the page: title, body text and nested sections
Section(t, b, subs) == [title |-> t, text |-> b, sections |-> subs]

\* the last title is "Work" followed by the long s
Titles == {Str("BIBLIOGRAPHY"), Str("Selected Works and Publications"),
           Str("Personal Life"), Str("Notebooks"), Str("Artwork"),
           Str("Work") \o <<383>>}

SubTitles == {Str("1990s"), Str("Bibliography")}

BodyOf(t) ==
    IF t \in {Str("BIBLIOGRAPHY"), Str("1990s")} THEN <<>>
    ELSE Str(" On ") \o t \o Str(".\n")

\* a subsection; the one titled "1990s" has a subsection of its own
SubSection(t) ==
    Section(t, BodyOf(t),
            IF t = Str("1990s")
            THEN <<Section(Str("Works"), Str("W"), <<>>)>> ELSE <<>>)

\* " \u2192 ", the arrow between the titles of a nested heading
Arrow == <<32, 8594, 32>>

SubLists ==
    UNION {[1..n -> {SubSection(t) : t \in SubTitles}] : n \in 0..MaxSubs}

TopSections == {Section(t, BodyOf(t), subs) : t \in Titles, subs \in SubLists}

Pages == UNION {[1..n -> TopSections] : n \in 0..MaxSections}

\* the entry of a matched section followed by one entry per direct subsection
SectionEntries(s) ==
    <<[heading |-> s.title, content |-> Strip(s.text)]>>
        \o [n \in 1..Len(s.sections) |->
               [heading |-> s.title \o Arrow \o s.sections[n].title,
                content |-> Strip(s.sections[n].text)]]

InitTimelineIdle ==
    /\ text = NoneArg
    /\ max_events = 0
    /\ pc = "idle"
    /\ sentences = <<>>
    /\ si = 0
    /\ events = <<>>
    /\ sorted_events = <<>>
    /\ i = 0
    /\ seen = {}
    /\ unique_events = <<>>
    /\ result = <<>>
    /\ raised = "none"

InitWorks ==
    /\ page \in Pages
    /\ wpc = "next"
    /\ k = 1
    /\ hit = FALSE
    /\ works = <<>>
    /\ InitTimelineIdle
    /\ InitFavoritesIdle

\* for s in page.sections: if re.search(...)
TestSection ==
    /\ wpc = "next"
    /\ k <= Len(page)
    /\ hit' = ReSearchWorks(page[k].title)
    /\ wpc' = "tested"
    /\ UNCHANGED <<page, k, works>>
    /\ UNCHANGED timelineVars
    /\ UNCHANGED favVars

\* the body of the if: the section and its direct subsections are collected
EmitSection ==
    /\ wpc = "tested"
    /\ hit
    /\ works' = works \o SectionEntries(page[k])
    /\ k' = k + 1
    /\ wpc' = "next"
    /\ UNCHANGED <<page, hit>>
    /\ UNCHANGED timelineVars
    /\ UNCHANGED favVars

\* no match: the section is passed over, its subsections unread
SkipSection ==
    /\ wpc = "tested"
    /\ ~hit
    /\ k' = k + 1
    /\ wpc' = "next"
    /\ UNCHANGED <<page, hit, works>>
    /\ UNCHANGED timelineVars
    /\ UNCHANGED favVars

\* the loop over page.sections is exhausted
FinishWorks ==
    /\ wpc = "next"
    /\ k > Len(page)
    /\ wpc' = "done"
    /\ UNCHANGED <<page, k, hit, works>>
    /\ UNCHANGED timelineVars
    /\ UNCHANGED favVars

NextWorks ==
    \/ TestSection
    \/ EmitSection
    \/ SkipSection
    \/ FinishWorks

SpecWorks == InitWorks /\ [][NextWorks]_vars

InitWorksIdle ==
    /\ page = <<>>
    /\ wpc = "idle"
    /\ k = 0
    /\ hit = FALSE
    /\ works = <<>>

InitTimeline ==
    /\ text \in TextArgs
    /\ max_events \in (0 - MaxNeg)..MaxCap
    /\ pc = "guard"
    /\ sentences = <<>>
    /\ si = 0
    /\ events = <<>>
    /\ sorted_events = <<>>
    /\ i = 0
    /\ seen = {}
    /\ unique_events = <<>>
    /\ result = <<>>
    /\ raised = "none"
    /\ InitWorksIdle
    /\ InitFavoritesIdle

\* if not text: return []
GuardEmpty ==
    /\ pc = "guard"
    /\ ~Truthy(text)
    /\ result' = <<>>
    /\ pc' = "done"
    /\ UNCHANGED <<text, max_events, sentences, si, events, sorted_events, i,
                   seen, unique_events, raised>>
    /\ UNCHANGED worksVars
    /\ UNCHANGED favVars

\* re.split on a value that is not a str raises TypeError
SplitRaises ==
    /\ pc = "guard"
    /\ Truthy(text)
    /\ text.kind # "str"
    /\ raised' = "TypeError"
    /\ pc' = "done"
    /\ UNCHANGED <<text, max_events, sentences, si, events, sorted_events, i,
                   seen, unique_events, result>>
    /\ UNCHANGED worksVars
    /\ UNCHANGED favVars

\* sentences = re.split(...); events = []
Split ==
    /\ pc = "guard"
    /\ Truthy(text)
    /\ text.kind = "str"
    /\ sentences' = SplitSentences(text.str)
    /\ events' = <<>>
    /\ si' = 1
    /\ pc' = "scan"
    /\ UNCHANGED <<text, max_events, sorted_events, i, seen, unique_events,
                   result, raised>>
    /\ UNCHANGED worksVars
    /\ UNCHANGED favVars

\* one iteration of: for s in sentences
ScanSentence ==
    /\ pc = "scan"
    /\ si <= Len(sentences)
    /\ events' = events \o SentenceEvents(sentences[si])
    /\ si' = si + 1
    /\ UNCHANGED <<text, max_events, pc, sentences, sorted_events, i, seen,
                   unique_events, result, raised>>
    /\ UNCHANGED worksVars
    /\ UNCHANGED favVars

\* seen = set(); unique_events = []; sorted(events, key=...)
SortEvents ==
    /\ pc = "scan"
    /\ si > Len(sentences)
    /\ seen' = {}
    /\ unique_events' = <<>>
    /\ sorted_events' = SortedByYear(events)
    /\ i' = 1
    /\ pc' = IF Len(events) = 0 THEN "return" ELSE "dedupe"
    /\ UNCHANGED <<text, max_events, sentences, si, events, result, raised>>
    /\ UNCHANGED worksVars
    /\ UNCHANGED favVars

\* one iteration of the loop over the sorted events, without the seen test
DedupeStepNoSeen ==
    /\ pc = "dedupe"
    /\ i <= Len(sorted_events)
    /\ LET e == sorted_events[i]
           u == Append(unique_events, e)
       IN  /\ seen' = seen \cup {e.text}
           /\ unique_events' = u
           /\ IF Len(u) >= max_events \/ i = Len(sorted_events)
              THEN pc' = "return" /\ i' = i
              ELSE pc' = "dedupe" /\ i' = i + 1
    /\ UNCHANGED <<text, max_events, sentences, si, events, sorted_events,
                   result, raised>>
    /\ UNCHANGED worksVars
    /\ UNCHANGED favVars

\* one iteration of the loop over the sorted events
DedupeStep ==
    /\ pc = "dedupe"
    /\ i <= Len(sorted_events)
    /\ LET e == sorted_events[i]
           u == IF e.text \notin seen THEN Append(unique_events, e)
                ELSE unique_events
       IN  /\ seen' = seen \cup {e.text}
           /\ unique_events' = u
           /\ IF Len(u) >= max_events \/ i = Len(sorted_events)
              THEN pc' = "return" /\ i' = i
              ELSE pc' = "dedupe" /\ i' = i + 1
    /\ UNCHANGED <<text, max_events, sentences, si, events, sorted_events,
                   result, raised>>
    /\ UNCHANGED worksVars
    /\ UNCHANGED favVars

\* return unique_events
Return ==
    /\ pc = "return"
    /\ result' = unique_events
    /\ pc' = "done"
    /\ UNCHANGED <<text, max_events, sentences, si, events, sorted_events, i,
                   seen, unique_events, raised>>
    /\ UNCHANGED worksVars
    /\ UNCHANGED favVars

NextTimeline ==
    \/ GuardEmpty
    \/ SplitRaises
    \/ Split
    \/ ScanSentence
    \/ SortEvents
    \/ DedupeStep
    \/ Return

SpecTimeline == InitTimeline /\ [][NextTimeline]_vars

\* if "favorites" not in st.session_state: st.session_state["favorites"] = []
InitFavorites ==
    /\ favorites = <<>>
    /\ fav_call = NoCall
    /\ InitTimelineIdle
    /\ InitWorksIdle

AddFavorite ==
    \E name \in Names :
        /\ favorites' = AfterAdd(favorites, name)
        /\ fav_call' = [op |-> "add", name |-> name, before |-> favorites]
        /\ UNCHANGED timelineVars
        /\ UNCHANGED worksVars

RemoveFavorite ==
    \E name \in Names :
        /\ favorites' = AfterRemove(favorites, name)
        /\ fav_call' = [op |-> "remove", name |-> name, before |-> favorites]
        /\ UNCHANGED timelineVars
        /\ UNCHANGED worksVars

NextFavorites ==
    \/ AddFavorite
    \/ RemoveFavorite

SpecFavorites == InitFavorites /\ [][NextFavorites]_vars

Returned == pc = "done" /\ raised = "none"

(***************************************************************************)
(* What the text of a finished call contains, read off the (year,          *)
(* sentence) pairs collected from it.                                      *)
(***************************************************************************)
DistinctTexts == {events[n].text : n \in DOMAIN events}

ResultTexts == {result[n].text : n \in DOMAIN result}

PairsOf(t) == {n \in DOMAIN events : events[n].text = t}

YearsOf(t) == {events[n].year : n \in PairsOf(t)}

MinYear(t) == CHOOSE y \in YearsOf(t) : \A z \in YearsOf(t) : y <= z

\* the first sentence of the text whose trimmed form is t
FirstIdx(t) ==
    LET occ == {n \in DOMAIN sentences : Strip(sentences[n]) = t}
    IN  CHOOSE n \in occ : \A m \in occ : n <= m

\* a cap below zero is a cap of zero events
CapOf(m) == IF m < 0 THEN 0 ELSE m

\* C1: no two events of a returned timeline have the same text, also when
\* a sentence mentions several years or occurs several times.
C1_NoDuplicateText ==
    Returned =>
        \A a, b \in DOMAIN result : a # b => result[a].text # result[b].text

C1_Witness ==
    /\ Returned
    /\ Len(result) >= 2
    /\ \E a \in DOMAIN result : Cardinality(PairsOf(result[a].text)) >= 2

\* C2: the events of a returned timeline are in ascending year order.
C2_AscendingYears ==
    Returned =>
        \A n \in 1..(Len(result) - 1) : result[n].year <= result[n + 1].year

C2_Witness ==
    /\ Returned
    /\ Len(result) >= 2
    /\ result[1].year < result[2].year
    /\ \E a, b \in DOMAIN events : a < b /\ events[a].year > events[b].year

\* C3: the number of returned events is at most max_events (at most zero
\* for a cap below zero), and it is exactly the cap when the text has more
\* distinct year-bearing sentences than max_events.
C3_CapRespected ==
    Returned =>
        /\ Len(result) <= CapOf(max_events)
        /\ Cardinality(DistinctTexts) > max_events
               => Len(result) = CapOf(max_events)

\* C4: with max_events <= 0 the returned timeline is empty, whatever the
\* text.
C4_ZeroCapEmpty ==
    (pc = "done" /\ max_events <= 0) => (raised = "none" => result = <<>>)

\* C5: for empty, None or non-text input, and for a text with no year in
\* it, the call returns the empty sequence and raises nothing.
C5_NonTextReturnsEmpty ==
    (pc = "done" /\ (text.kind # "str" \/ events = <<>>))
        => (raised = "none" /\ result = <<>>)

\* C6: when the text has more distinct year-bearing sentences than
\* max_events, the returned sentences are the max_events earliest ones:
\* there are exactly that many, and no omitted sentence has a smallest year
\* below the year of a returned event.
C6_EarliestChosen ==
    (Returned /\ Cardinality(DistinctTexts) > max_events) =>
        /\ Cardinality(ResultTexts) = CapOf(max_events)
        /\ \A t \in DistinctTexts \ ResultTexts : \A a \in DOMAIN result :
               MinYear(t) >= result[a].year

\* C9: a sentence text that yields several pairs is kept once, with the
\* smallest year matched in any occurrence of it.
C9_SmallestYearKept ==
    Returned =>
        \A a \in DOMAIN result :
            /\ result[a].year = MinYear(result[a].text)
            /\ Cardinality({b \in DOMAIN result :
                               result[b].text = result[a].text}) = 1

C9_Witness ==
    /\ Returned
    /\ \E a \in DOMAIN result :
           LET first == CHOOSE n \in PairsOf(result[a].text) :
                            \A m \in PairsOf(result[a].text) : n <= m
           IN  events[first].year > result[a].year

\* C10: two returned events of the same year are in the order in which
\* their sentences first occur in the text.
C10_TiesInTextOrder ==
    Returned =>
        \A a, b \in DOMAIN result :
            (a < b /\ result[a].year = result[b].year)
                => FirstIdx(result[a].text) < FirstIdx(result[b].text)

C10_Witness ==
    /\ Returned
    /\ \E a, b \in DOMAIN result :
           /\ a < b
           /\ result[a].year = result[b].year
           /\ \E n \in DOMAIN sorted_events :
                  sorted_events[n].year > result[a].year

(***************************************************************************)
(* The keyword rule of the works collector, stated on titles whose letters *)
(* are brought to lower case.                                              *)
(***************************************************************************)
Keywords == {Str("works"), Str("books"), Str("bibliography"),
             Str("publications"), Str("selected works")}

\* the small ASCII letter c is a case variant of, or c itself: the capitals
\* A-Z, the Kelvin sign, the dotted capital I, the dotless i and the long s
\* have the small letters k, i, i and s as their other case
SmallLetter(c) ==
    CASE c \in 65..90 -> c + 32
      [] c = 8490 -> 107
      [] c = 304 -> 105
      [] c = 305 -> 105
      [] c = 383 -> 115
      [] OTHER -> c

Lower(s) == [n \in 1..Len(s) |-> SmallLetter(s[n])]

Contains(s, kw) ==
    \E p \in 1..(Len(s) - Len(kw) + 1) : SubSeq(s, p, p + Len(kw) - 1) = kw

HasKeyword(title) == \E kw \in Keywords : Contains(Lower(title), kw)

Headings(ws) == [n \in 1..Len(ws) |-> ws[n].heading]

\* the headings the claim expects for the first n sections of pg
RECURSIVE ExpectedHeadings(_, _)
ExpectedHeadings(pg, n) ==
    IF n = 0 THEN <<>>
    ELSE ExpectedHeadings(pg, n - 1) \o
         (IF HasKeyword(pg[n].title)
          THEN <<pg[n].title>> \o
               [m \in 1..Len(pg[n].sections) |->
                   pg[n].title \o <<32, 8594, 32>> \o pg[n].sections[m].title]
          ELSE <<>>)

\* C7: the collector returns, in document order, each top-level section
\* whose title matches followed by one entry per direct subsection of it,
\* headed "<parent> → <child>"; nothing for a section that does not match
\* nor for its subsections, and nothing for grandchildren.
C7_CollectedInDocumentOrder ==
    wpc = "done" => Headings(works) = ExpectedHeadings(page, Len(page))

C7_Witness ==
    /\ wpc = "done"
    /\ Len(page) = 2
    /\ HasKeyword(page[1].title)
    /\ \E n \in DOMAIN page[1].sections :
           /\ ~HasKeyword(page[1].sections[n].title)
           /\ Len(page[1].sections[n].sections) > 0
    /\ ~HasKeyword(page[2].title)
    /\ \E n \in DOMAIN page[2].sections : HasKeyword(page[2].sections[n].title)
    /\ Len(works) = 1 + Len(page[1].sections)

\* C8: a section is matched exactly when its title, lower-cased, contains
\* one of the keywords as a substring.
C8_MatchIsKeywordSubstring ==
    wpc = "tested" => (hit <=> HasKeyword(page[k].title))

C8_Witness ==
    /\ wpc = "tested"
    /\ hit
    /\ page[k].title = Str("BIBLIOGRAPHY")

\* the items of list other than name, in their order
RECURSIVE Without(_, _)
Without(list, name) ==
    IF Len(list) = 0 THEN <<>>
    ELSE (IF Head(list) = name THEN <<>> ELSE <<Head(list)>>)
             \o Without(Tail(list), name)

Occurrences(list, name) == Cardinality({n \in DOMAIN list : list[n] = name})

\* C11: from the empty list, after any calls of add_favorite and
\* remove_favorite the favorites hold no name twice; add_favorite of a name
\* already present leaves the list unchanged, add_favorite of a new name
\* appends it at the end with the others in place, and remove_favorite
\* leaves the name absent and the other names in their order.
C11_FavoritesUniqueAndOrdered ==
    /\ \A name \in Names : Occurrences(favorites, name) <= 1
    /\ (fav_call.op = "add" /\ Occurrences(fav_call.before, fav_call.name) > 0)
           => favorites = fav_call.before
    /\ (fav_call.op = "add" /\ Occurrences(fav_call.before, fav_call.name) = 0)
           => /\ Len(favorites) = Len(fav_call.before) + 1
              /\ favorites[Len(favorites)] = fav_call.name
              /\ SubSeq(favorites, 1, Len(fav_call.before)) = fav_call.before
    /\ fav_call.op = "remove"
           => /\ Occurrences(favorites, fav_call.name) = 0
              /\ favorites = Without(fav_call.before, fav_call.name)

C11_Witness ==
    /\ fav_call.op = "remove"
    /\ Len(fav_call.before) = 3
    /\ fav_call.before[2] = fav_call.name
    /\ favorites = <<fav_call.before[1], fav_call.before[3]>>
====
